---- MODULE Spec2Model ----
(***************************************************************************)
(* Model of the size-to-text formatting engine of prettysize               *)
(* (src/src/fmt.rs): the two rule tables, the rule lookup, the unit text   *)
(* and the SizeFormatter builder.                                          *)
(*                                                                         *)
(* Byte counts are 64-bit integers.  They are written here as big-endian   *)
(* sequences of base-10^6 limbs without leading zeros (<<>> is 0), so that  *)
(* a threshold such as 10^18 or u64::MAX keeps its exact value.            *)
(***************************************************************************)
EXTENDS Integers, Sequences, FiniteSets, TLC

VARIABLES
    size,           \* the Size formatted: its byte count, an i64
    sizeFormatter,  \* the SizeFormatter value the caller holds
    out,            \* what that value has written to the sink, if it has
    lastBase,       \* the argument of the latest with_base call, if any
    lastStyle,      \* the argument of the latest with_style call, if any
    nCalls,         \* the with_base and with_style calls made on this chain
    probe,          \* a base and a u64 handed to the rule lookup alone
    found           \* what the lookup made of the probe

vars == <<size, sizeFormatter, out, lastBase, lastStyle, nCalls, probe, found>>

(***************************************************************************)
(* Bounds of the model.                                                    *)
(***************************************************************************)
\* Byte counts within MaxDelta of every threshold of both tables are inputs.
MaxDelta == 1

\* A chain of configuration calls has at most MaxCalls calls.
MaxCalls == 3

(***************************************************************************)
(* Integer arithmetic on limb sequences.                                   *)
(***************************************************************************)
Radix == 1000 * 1000

Front(x) == SubSeq(x, 1, Len(x) - 1)

Last(x) == x[Len(x)]

RECURSIVE Norm(_)
Norm(x) == IF x # <<>> /\ Head(x) = 0 THEN Norm(Tail(x)) ELSE x

Nat2Big(n) == Norm(<<n \div Radix, n % Radix>>)

Pad(x, n) == [i \in 1..n |-> IF i <= n - Len(x) THEN 0 ELSE x[i - (n - Len(x))]]

MaxLen(x, y) == IF Len(x) < Len(y) THEN Len(y) ELSE Len(x)

RECURSIVE CmpLimbs(_, _)
CmpLimbs(x, y) ==
    IF x = <<>> THEN 0
    ELSE IF Head(x) < Head(y) THEN -1
    ELSE IF Head(x) > Head(y) THEN 1
    ELSE CmpLimbs(Tail(x), Tail(y))

\* Ordering::Less = -1, Equal = 0, Greater = 1
Cmp(x, y) ==
    IF Len(x) < Len(y) THEN -1
    ELSE IF Len(x) > Len(y) THEN 1
    ELSE CmpLimbs(x, y)

Lt(x, y) == Cmp(x, y) < 0

Le(x, y) == Cmp(x, y) <= 0

RECURSIVE MulCarry(_, _, _)
MulCarry(x, k, c) ==
    IF x = <<>> THEN (IF c = 0 THEN <<>> ELSE <<c>>)
    ELSE LET t == Last(x) * k + c
         IN  Append(MulCarry(Front(x), k, t \div Radix), t % Radix)

\* x * k for a small factor k
MulSmall(x, k) == IF k = 0 THEN <<>> ELSE MulCarry(x, k, 0)

\* x + c for a small addend c
AddSmall(x, c) == MulCarry(x, 1, c)

RECURSIVE DivRem(_, _, _, _)
DivRem(x, k, r, acc) ==
    IF x = <<>> THEN [q |-> Norm(acc), r |-> r]
    ELSE LET t == r * Radix + Head(x)
         IN  DivRem(Tail(x), k, t % k, Append(acc, t \div k))

\* x div k and x mod k for a small divisor k
DivSmall(x, k) == DivRem(x, k, 0, <<>>).q

ModSmall(x, k) == DivRem(x, k, 0, <<>>).r

RECURSIVE AddLimbs(_, _, _)
AddLimbs(x, y, c) ==
    IF x = <<>> THEN (IF c = 0 THEN <<>> ELSE <<c>>)
    ELSE LET t == Last(x) + Last(y) + c
         IN  Append(AddLimbs(Front(x), Front(y), t \div Radix), t % Radix)

Add(x, y) ==
    LET n == MaxLen(x, y) IN Norm(AddLimbs(Pad(x, n), Pad(y, n), 0))

RECURSIVE SubLimbs(_, _, _)
SubLimbs(x, y, b) ==
    IF x = <<>> THEN <<>>
    ELSE LET t == Last(x) - Last(y) - b
         IN  Append(SubLimbs(Front(x), Front(y), IF t < 0 THEN 1 ELSE 0),
                    IF t < 0 THEN t + Radix ELSE t)

\* x - y, for x >= y
Sub(x, y) ==
    LET n == MaxLen(x, y) IN Norm(SubLimbs(Pad(x, n), Pad(y, n), 0))

\* |x - y|
AbsDiff(x, y) == IF Lt(x, y) THEN Sub(y, x) ELSE Sub(x, y)

\* x * 2^n
RECURSIVE MulPow2(_, _)
MulPow2(x, n) ==
    IF n = 0 THEN x
    ELSE IF n >= 10 THEN MulPow2(MulSmall(x, 1024), n - 10)
    ELSE MulSmall(x, 2 ^ n)

\* x * 10^n
RECURSIVE MulPow10(_, _)
MulPow10(x, n) == IF n = 0 THEN x ELSE MulPow10(MulSmall(x, 10), n - 1)

\* x div 2^n
RECURSIVE DivPow2(_, _)
DivPow2(x, n) ==
    IF n = 0 THEN x
    ELSE IF n >= 10 THEN DivPow2(DivSmall(x, 1024), n - 10)
    ELSE DivSmall(x, 2 ^ n)

Pow2(n) == MulPow2(<<1>>, n)

Pow10(n) == MulPow10(<<1>>, n)

\* n div d and n * d for a divisor d that is a product of factors 1000, or of
\* factors 1024, times a number up to 1024: the divisors of both tables are.
RECURSIVE DivBy(_, _)
DivBy(n, d) ==
    IF Len(d) = 1 /\ d[1] <= 1024 THEN DivSmall(n, d[1])
    ELSE IF ModSmall(d, 1000) = 0
    THEN DivBy(DivSmall(n, 1000), DivSmall(d, 1000))
    ELSE DivBy(DivSmall(n, 1024), DivSmall(d, 1024))

RECURSIVE MulBy(_, _)
MulBy(n, d) ==
    IF Len(d) = 1 /\ d[1] <= 1024 THEN MulSmall(n, d[1])
    ELSE IF ModSmall(d, 1000) = 0
    THEN MulBy(MulSmall(n, 1000), DivSmall(d, 1000))
    ELSE MulBy(MulSmall(n, 1024), DivSmall(d, 1024))

(***************************************************************************)
(* Integer limits.                                                         *)
(***************************************************************************)
\* i64::max_value() = 2^63 - 1
i64_max_value == <<9, 223372, 36854, 775807>>

\* A last threshold of i64::max_value() in place of u64::max_value().
u64_max_value_signed == <<9, 223372, 36854, 775807>>

\* u64::max_value() = 2^64 - 1
u64_max_value == <<18, 446744, 73709, 551615>>

\* The magnitude of i64::min_value(), 2^63
i64_min_magnitude == <<9, 223372, 36854, 775808>>

(***************************************************************************)
(* Unit constants of the crate root (the byte value of each unit) and the  *)
(* defaults of Size::format.                                               *)
(***************************************************************************)
KILOBYTE == <<1000>>

MEGABYTE == <<1, 0>>

GIGABYTE == <<1000, 0>>

TERABYTE == <<1, 0, 0>>

PETABYTE == <<1000, 0, 0>>

EXABYTE == <<1, 0, 0, 0>>

KIBIBYTE == <<1024>>

MEBIBYTE == <<1, 48576>>

GIBIBYTE == <<1073, 741824>>

TEBIBYTE == <<1, 99511, 627776>>

PEBIBYTE == <<1125, 899906, 842624>>

EXBIBYTE == <<1, 152921, 504606, 846976>>

DEFAULT_BASE == "Base2"

DEFAULT_STYLE == "Default"

(***************************************************************************)
(* enum Base, enum Unit, enum Style.                                       *)
(***************************************************************************)
Base == {"Base2", "Base10"}

Unit == {"Byte", "Kibibyte", "Kilobyte", "Mebibyte", "Megabyte", "Gibibyte",
         "Gigabyte", "Tebibyte", "Terabyte", "Pebibyte", "Petabyte",
         "Exbibyte", "Exabyte"}

Style == {"Default", "Abbreviated", "AbbreviatedLowercase", "Full",
          "FullLowercase"}

\* Unit::text: (full lowercase, full, abbreviated lowercase, abbreviated)
Unit_text(unit) ==
    CASE unit = "Byte"     -> <<"byte", "Byte", "b", "B">>
      [] unit = "Kilobyte" -> <<"kilobyte", "Kilobyte", "kb", "KB">>
      [] unit = "Megabyte" -> <<"megabyte", "Megabyte", "mb", "MB">>
      [] unit = "Gigabyte" -> <<"gigabyte", "Gigabyte", "gb", "GB">>
      [] unit = "Terabyte" -> <<"terabyte", "Terabyte", "tb", "TB">>
      [] unit = "Petabyte" -> <<"petabyte", "Petabyte", "pb", "PB">>
      [] unit = "Exabyte"  -> <<"exabyte", "Exabyte", "eb", "EB">>
      [] unit = "Kibibyte" -> <<"kibibyte", "Kibibyte", "kib", "KiB">>
      [] unit = "Mebibyte" -> <<"mebibyte", "Mebibyte", "mib", "MiB">>
      [] unit = "Gibibyte" -> <<"gibibyte", "Gibibyte", "gib", "GiB">>
      [] unit = "Pebibyte" -> <<"pebibyte", "Pebibyte", "pib", "PiB">>
      [] unit = "Tebibyte" -> <<"tebibyte", "Tebibyte", "tib", "TiB">>
      [] unit = "Exbibyte" -> <<"exbibyte", "Exbibyte", "eib", "EiB">>


(***************************************************************************)
(* 64-bit floating point, as far as the formatters use it: the cast of an  *)
(* integer (round to 53 significant bits, ties to even), one division      *)
(* (correctly rounded) and the fractional digits Display prints when the   *)
(* format spec states no precision.  A double that is an integer is        *)
(* written as that integer, a quotient as [m |-> M, e |-> E], M / 2^E.     *)
(***************************************************************************)
\* 2^53, below which every integer is a double
Two53 == <<9007, 199254, 740992>>

\* The number of low bits an integer loses when it is cut to 53 bits.
RECURSIVE ExcessBits(_)
ExcessBits(b) == IF Lt(b, Two53) THEN 0 ELSE 1 + ExcessBits(DivSmall(b, 2))

\* Round to nearest, ties to even: whether m goes up, where rest is what was
\* cut off m and half is half a unit of m.
round_up(rest, half, m) ==
    Lt(half, rest) \/ (rest = half /\ ModSmall(m, 2) = 1)

\* b cut to the mantissa m = b div 2^s, rounded
round_mantissa(b, s, m) ==
    MulPow2(IF round_up(Sub(b, MulPow2(m, s)), Pow2(s - 1), m)
            THEN AddSmall(m, 1) ELSE m, s)

round_to_53(b, s) == IF s = 0 THEN b ELSE round_mantissa(b, s, DivPow2(b, s))

\* `b as f64`: the nearest double
as_f64(b) == round_to_53(b, ExcessBits(b))

\* The least t with x * 2^t >= d52.
RECURSIVE ScaleBits(_, _)
ScaleBits(x, d52) ==
    IF Le(d52, x) THEN 0
    ELSE IF Lt(MulSmall(x, 512), d52)
    THEN 10 + ScaleBits(MulSmall(x, 1024), d52)
    ELSE 1 + ScaleBits(MulSmall(x, 2), d52)

\* n / d = q and a rest, rounded: the quotient M / 2^t
div_rounded(n, d, t, q) ==
    [m |-> IF round_up(MulSmall(Sub(n, MulBy(q, d)), 2), d, q)
           THEN AddSmall(q, 1) ELSE q,
     e |-> t]

div_scaled(n, d, t) == div_rounded(n, d, t, DivBy(n, d))

\* x / d for doubles of integer value, x >= d > 0: the quotient has 53 bits
\* when it is taken of x * 2^t, with 2^52 <= x * 2^t / d < 2^53.
div_by_bits(x, d, t) == div_scaled(MulPow2(x, t), d, t)

f64_div(x, d) == div_by_bits(x, d, ScaleBits(x, MulPow2(d, 52)))

\* Whether a decimal of d fractional digits lies within half a unit in the
\* last place of the double v, so that it reads back as v: `twice` is twice
\* the distance of the nearest such decimal, p is 10^d, both scaled by
\* 10^d * 2^e.
reads_back(twice, p, m) == Lt(twice, p) \/ (twice = p /\ ModSmall(m, 2) = 0)

\* scaled / 2^e, rounded to the nearest integer
nearest(scaled, e) ==
    IF e = 0 THEN scaled ELSE DivPow2(Add(scaled, Pow2(e - 1)), e)

distance(scaled, e, n) == AbsDiff(MulPow2(n, e), scaled)

round_trips_scaled(v, d, scaled) ==
    reads_back(MulSmall(distance(scaled, v.e, nearest(scaled, v.e)), 2),
               Pow10(d), v.m)

RoundTrips(v, d) == round_trips_scaled(v, d, MulPow10(v.m, d))

\* Display for f64 without a precision prints the shortest decimal that reads
\* back as the same double (a double has at most 17 significant digits).
ShortestDecimals(v) ==
    CHOOSE d \in 0..17 :
        /\ d = 17 \/ RoundTrips(v, d)
        /\ \A less \in 0..(d - 1) : ~RoundTrips(v, less)

\* The precision a format spec states, <<>> for none: ".N" is a precision of
\* N, "0" is the zero-padding flag and states no precision.
spec_precision(spec) ==
    CASE spec = ".0" -> <<0>>
      [] spec = ".1" -> <<1>>
      [] spec = ".2" -> <<2>>
      [] spec = "0"  -> <<>>

(***************************************************************************)
(* struct FormatRule and the two tables.                                   *)
(***************************************************************************)
\* |fmt, bytes| write!(fmt, "{:<spec>}", bytes)
WriteInt(spec) == [float |-> FALSE, spec |-> spec, divisor |-> <<1>>]

\* |fmt, bytes| write!(fmt, "{:<spec>}", bytes as f64 / ((1i64 * unit) as f64))
WriteF64(spec, unit) ==
    [float |-> TRUE, spec |-> spec, divisor |-> MulSmall(unit, 1)]

FormatRule(less_than, formatter, unit) ==
    [less_than |-> less_than, formatter |-> formatter, unit |-> unit]

\* The decimal table with the [10 kB, 100 kB) row written with {:.2}.
BASE10_RULES_kilo_two_places == <<
    FormatRule(MulSmall(KILOBYTE, 1), WriteInt(".0"), "Byte"),
    FormatRule(MulSmall(KILOBYTE, 10), WriteF64(".2", KILOBYTE), "Kilobyte"),
    FormatRule(MulSmall(KILOBYTE, 100), WriteF64(".2", KILOBYTE), "Kilobyte"),
    FormatRule(MulSmall(MEGABYTE, 1), WriteF64(".0", KILOBYTE), "Kilobyte"),
    FormatRule(MulSmall(MEGABYTE, 10), WriteF64(".2", MEGABYTE), "Megabyte"),
    FormatRule(MulSmall(MEGABYTE, 100), WriteF64(".1", MEGABYTE), "Megabyte"),
    FormatRule(MulSmall(GIGABYTE, 1), WriteF64(".0", MEGABYTE), "Megabyte"),
    FormatRule(MulSmall(GIGABYTE, 10), WriteF64(".2", GIGABYTE), "Gigabyte"),
    FormatRule(MulSmall(GIGABYTE, 100), WriteF64(".1", GIGABYTE), "Gigabyte"),
    FormatRule(MulSmall(TERABYTE, 1), WriteF64(".0", GIGABYTE), "Gigabyte"),
    FormatRule(MulSmall(TERABYTE, 10), WriteF64(".2", TERABYTE), "Terabyte"),
    FormatRule(MulSmall(TERABYTE, 100), WriteF64(".1", TERABYTE), "Terabyte"),
    FormatRule(MulSmall(PETABYTE, 1), WriteF64(".0", TERABYTE), "Terabyte"),
    FormatRule(MulSmall(PETABYTE, 10), WriteF64(".2", PETABYTE), "Petabyte"),
    FormatRule(MulSmall(PETABYTE, 100), WriteF64(".1", PETABYTE), "Petabyte"),
    FormatRule(MulSmall(EXABYTE, 1), WriteF64(".0", PETABYTE), "Petabyte"),
    FormatRule(u64_max_value, WriteF64("0", EXABYTE), "Exabyte") >>

BASE10_RULES == <<
    FormatRule(MulSmall(KILOBYTE, 1), WriteInt(".0"), "Byte"),
    FormatRule(MulSmall(KILOBYTE, 10), WriteF64(".2", KILOBYTE), "Kilobyte"),
    FormatRule(MulSmall(KILOBYTE, 100), WriteF64(".1", KILOBYTE), "Kilobyte"),
    FormatRule(MulSmall(MEGABYTE, 1), WriteF64(".0", KILOBYTE), "Kilobyte"),
    FormatRule(MulSmall(MEGABYTE, 10), WriteF64(".2", MEGABYTE), "Megabyte"),
    FormatRule(MulSmall(MEGABYTE, 100), WriteF64(".1", MEGABYTE), "Megabyte"),
    FormatRule(MulSmall(GIGABYTE, 1), WriteF64(".0", MEGABYTE), "Megabyte"),
    FormatRule(MulSmall(GIGABYTE, 10), WriteF64(".2", GIGABYTE), "Gigabyte"),
    FormatRule(MulSmall(GIGABYTE, 100), WriteF64(".1", GIGABYTE), "Gigabyte"),
    FormatRule(MulSmall(TERABYTE, 1), WriteF64(".0", GIGABYTE), "Gigabyte"),
    FormatRule(MulSmall(TERABYTE, 10), WriteF64(".2", TERABYTE), "Terabyte"),
    FormatRule(MulSmall(TERABYTE, 100), WriteF64(".1", TERABYTE), "Terabyte"),
    FormatRule(MulSmall(PETABYTE, 1), WriteF64(".0", TERABYTE), "Terabyte"),
    FormatRule(MulSmall(PETABYTE, 10), WriteF64(".2", PETABYTE), "Petabyte"),
    FormatRule(MulSmall(PETABYTE, 100), WriteF64(".1", PETABYTE), "Petabyte"),
    FormatRule(MulSmall(EXABYTE, 1), WriteF64(".0", PETABYTE), "Petabyte"),
    FormatRule(u64_max_value, WriteF64("0", EXABYTE), "Exabyte") >>

BASE2_RULES == <<
    FormatRule(MulSmall(KIBIBYTE, 1), WriteInt(".0"), "Byte"),
    FormatRule(MulSmall(KIBIBYTE, 10), WriteF64(".2", KIBIBYTE), "Kibibyte"),
    FormatRule(MulSmall(KIBIBYTE, 100), WriteF64(".1", KIBIBYTE), "Kibibyte"),
    FormatRule(MulSmall(MEBIBYTE, 1), WriteF64(".0", KIBIBYTE), "Kibibyte"),
    FormatRule(MulSmall(MEBIBYTE, 10), WriteF64(".2", MEBIBYTE), "Mebibyte"),
    FormatRule(MulSmall(MEBIBYTE, 100), WriteF64(".1", MEBIBYTE), "Mebibyte"),
    FormatRule(MulSmall(GIBIBYTE, 1), WriteF64(".0", MEBIBYTE), "Mebibyte"),
    FormatRule(MulSmall(GIBIBYTE, 10), WriteF64(".2", GIBIBYTE), "Gibibyte"),
    FormatRule(MulSmall(GIBIBYTE, 100), WriteF64(".1", GIBIBYTE), "Gibibyte"),
    FormatRule(MulSmall(TEBIBYTE, 1), WriteF64(".0", GIBIBYTE), "Gibibyte"),
    FormatRule(MulSmall(TEBIBYTE, 10), WriteF64(".2", TEBIBYTE), "Tebibyte"),
    FormatRule(MulSmall(TEBIBYTE, 100), WriteF64(".1", TEBIBYTE), "Tebibyte"),
    FormatRule(MulSmall(PEBIBYTE, 1), WriteF64(".0", TEBIBYTE), "Tebibyte"),
    FormatRule(MulSmall(PEBIBYTE, 10), WriteF64(".2", PEBIBYTE), "Pebibyte"),
    FormatRule(MulSmall(PEBIBYTE, 100), WriteF64(".1", PEBIBYTE), "Pebibyte"),
    FormatRule(MulSmall(EXBIBYTE, 1), WriteF64(".0", PEBIBYTE), "Pebibyte"),
    FormatRule(u64_max_value, WriteF64("0", EXBIBYTE), "Exbibyte") >>

(***************************************************************************)
(* Unit::format.                                                           *)
(***************************************************************************)
\* A Default that hands on to Abbreviated for every unit.
default_style_abbreviated(unit) == "Abbreviated"

\* The style Style::Default hands on to, by unit.
default_style(unit) == IF unit = "Byte" THEN "FullLowercase" ELSE "Abbreviated"

\* Arms that take every count up to 1 as singular.
style_arm_upto_one(unit, bytes, style) ==
    IF bytes = <<>> \/ bytes = <<1>>
    THEN CASE style = "FullLowercase"        -> " " \o Unit_text(unit)[1]
           [] style = "Full"                 -> " " \o Unit_text(unit)[2]
           [] style = "AbbreviatedLowercase" -> " " \o Unit_text(unit)[3]
           [] style = "Abbreviated"          -> " " \o Unit_text(unit)[4]
    ELSE CASE style = "FullLowercase"        -> " " \o Unit_text(unit)[1] \o "s"
           [] style = "Full"                 -> " " \o Unit_text(unit)[2] \o "s"
           [] style = "AbbreviatedLowercase" -> " " \o Unit_text(unit)[3]
           [] style = "Abbreviated"          -> " " \o Unit_text(unit)[4]

\* The arms of the match for the four spelled styles: those for a byte count
\* of 1 come first, the catch-all arms after them.
style_arm(unit, bytes, style) ==
    IF bytes = <<1>>
    THEN CASE style = "FullLowercase"        -> " " \o Unit_text(unit)[1]
           [] style = "Full"                 -> " " \o Unit_text(unit)[2]
           [] style = "AbbreviatedLowercase" -> " " \o Unit_text(unit)[3]
           [] style = "Abbreviated"          -> " " \o Unit_text(unit)[4]
    ELSE CASE style = "FullLowercase"        -> " " \o Unit_text(unit)[1] \o "s"
           [] style = "Full"                 -> " " \o Unit_text(unit)[2] \o "s"
           [] style = "AbbreviatedLowercase" -> " " \o Unit_text(unit)[3]
           [] style = "Abbreviated"          -> " " \o Unit_text(unit)[4]

\* What a call of format that hands on to another call returns.
handed_on(r) == [text |-> r.text, calls |-> r.calls + 1]

\* Unit::format: the text written, and the number of calls of format made.
RECURSIVE Unit_format(_, _, _)
Unit_format(unit, bytes, style) ==
    IF style = "Default"
    THEN handed_on(Unit_format(unit, bytes, default_style(unit)))
    ELSE [text |-> style_arm(unit, bytes, style), calls |-> 1]

(***************************************************************************)
(* SizeFormatter.                                                          *)
(***************************************************************************)
\* Size::format
Size_format(self) ==
    [size |-> self, base |-> DEFAULT_BASE, style |-> DEFAULT_STYLE]

\* SizeFormatter::with_base
with_base(self, base) == [self EXCEPT !.base = base]

\* A with_style that builds its result from the defaults.
with_style_fresh(self, style) ==
    [size |-> self.size, base |-> DEFAULT_BASE, style |-> style]

\* SizeFormatter::with_style
with_style(self, style) == [self EXCEPT !.style = style]

\* An absolute value that is never None.
checked_abs_unchecked(y) == <<y.mag>>

\* i64::checked_abs: <<>> is None, <<a>> is Some(a).
\* An i64 is [neg |-> whether it is below 0, mag |-> its magnitude].
checked_abs(y) == IF y.mag = i64_min_magnitude THEN <<>> ELSE <<y.mag>>

\* The first match of fmt: the sign written and the magnitude as u64.
magnitude(y) ==
    IF ~y.neg THEN [sign |-> "", bytes |-> y.mag]
    ELSE [sign |-> "-",
          bytes |-> IF checked_abs(y) # <<>> THEN checked_abs(y)[1]
                    ELSE i64_max_value]

\* slice::binary_search_by_key over less_than, on the indices lo..hi-1
\* (counted from 0): Ok(index) is [ok |-> TRUE], Err(index) [ok |-> FALSE].
RECURSIVE binary_search_by_key(_, _, _, _)
binary_search_by_key(rules, key, lo, hi) ==
    IF lo >= hi THEN [ok |-> FALSE, index |-> lo]
    ELSE IF Cmp(rules[lo + (hi - lo) \div 2 + 1].less_than, key) = 0
    THEN [ok |-> TRUE, index |-> lo + (hi - lo) \div 2]
    ELSE IF Cmp(rules[lo + (hi - lo) \div 2 + 1].less_than, key) < 0
    THEN binary_search_by_key(rules, key, lo + (hi - lo) \div 2 + 1, hi)
    ELSE binary_search_by_key(rules, key, lo, lo + (hi - lo) \div 2)

\* One table for both bases.
rules_of_binary(base) == BASE2_RULES

\* The table of a base.
rules_of(base) == IF base = "Base2" THEN BASE2_RULES ELSE BASE10_RULES

\* A match that takes the index of either result as it is.
index_of_as_found(search) == search.index

\* Ok(index) => index + 1, Err(index) => index
index_of(search) == IF search.ok THEN search.index + 1 ELSE search.index

\* The index (counted from 0) that fmt takes the rule from.
rule_index(rules, bytes) ==
    index_of(binary_search_by_key(rules, bytes, 0, Len(rules)))

\* &RULES[index]: indexing past the table panics.
rule_at(rules, index) ==
    IF index >= Len(rules) THEN [status |-> "panic", index |-> index]
    ELSE [status |-> "ok", index |-> index, rule |-> rules[index + 1]]

\* The second match of fmt: the rule taken.
select_rule(base, bytes) ==
    rule_at(rules_of(base), rule_index(rules_of(base), bytes))

\* The digits after the point of a float written under `precision`.
f64_decimals(precision, bytes, divisor) ==
    IF precision # <<>> THEN precision[1]
    ELSE ShortestDecimals(f64_div(as_f64(bytes), as_f64(divisor)))

\* (rule.formatter)(fmt, bytes): the number written is bytes / divisor with
\* `decimals` digits after the point (none, and no point, when it is 0).  An
\* integer is written whole, whatever the precision.
call_formatter(formatter, bytes) ==
    [arg      |-> bytes,
     divisor  |-> formatter.divisor,
     decimals |-> IF ~formatter.float THEN 0
                  ELSE f64_decimals(spec_precision(formatter.spec), bytes,
                                    formatter.divisor)]

\* fmt from the rule on: the number, then the unit.
write_rule(self, m, sel) ==
    IF sel.status = "panic"
    THEN [status |-> "panic", sign |-> m.sign, bytes |-> m.bytes,
          index |-> sel.index]
    ELSE [status    |-> "ok",
          sign      |-> m.sign,
          bytes     |-> m.bytes,
          index     |-> sel.index,
          unit      |-> sel.rule.unit,
          number    |-> call_formatter(sel.rule.formatter, m.bytes),
          unit_text |-> Unit_format(sel.rule.unit, m.bytes, self.style).text,
          calls     |-> Unit_format(sel.rule.unit, m.bytes, self.style).calls]

\* fmt from the magnitude on
write_magnitude(self, m) == write_rule(self, m, select_rule(self.base, m.bytes))

\* <SizeFormatter as Display>::fmt
SizeFormatter_fmt(self) == write_magnitude(self, magnitude(self.size))

(***************************************************************************)
(* Inputs.                                                                 *)
(***************************************************************************)
\* The thresholds of both tables below the catch-all one.
Thresholds ==
    {BASE10_RULES[i].less_than : i \in 1..(Len(BASE10_RULES) - 1)}
    \cup {BASE2_RULES[i].less_than : i \in 1..(Len(BASE2_RULES) - 1)}

Units10 == {KILOBYTE, MEGABYTE, GIGABYTE, TERABYTE, PETABYTE, EXABYTE}

Units2 == {KIBIBYTE, MEBIBYTE, GIBIBYTE, TEBIBYTE, PEBIBYTE, EXBIBYTE}

\* Magnitudes up to i64::MAX: around every threshold, the smallest counts,
\* one and a half of every unit, and the largest ones.
Magnitudes ==
    {Sub(t, Nat2Big(d)) : t \in Thresholds, d \in 0..MaxDelta}
    \cup {Add(t, Nat2Big(d)) : t \in Thresholds, d \in 0..MaxDelta}
    \cup {Nat2Big(n) : n \in 0..(MaxDelta + 1)}
    \cup {DivSmall(MulSmall(u, 3), 2) : u \in Units10 \cup Units2}
    \cup {Sub(i64_max_value, Nat2Big(d)) : d \in 0..MaxDelta}

\* The byte counts a Size is made with, i64::MIN among them.
Sizes ==
    {[neg |-> FALSE, mag |-> m] : m \in Magnitudes}
    \cup {[neg |-> TRUE, mag |-> m] : m \in Magnitudes \ {<<>>}}
    \cup {[neg |-> TRUE, mag |-> i64_min_magnitude]}

\* The u64 values the lookup is probed with, up to u64::MAX.
U64Inputs ==
    Magnitudes
    \cup {Add(i64_max_value, Nat2Big(d)) : d \in 1..(MaxDelta + 1)}
    \cup {Sub(u64_max_value, Nat2Big(d)) : d \in 0..MaxDelta}

NotWritten == [status |-> "none"]

NoProbe == [base |-> DEFAULT_BASE, bytes |-> <<>>]

(***************************************************************************)
(* The formatter: a Size, the SizeFormatter made of it by Size::format,    *)
(* then any chain of with_base and with_style calls and renderings.        *)
(***************************************************************************)
Init ==
    /\ size \in Sizes
    /\ sizeFormatter = Size_format(size)
    /\ out = NotWritten
    /\ lastBase = <<>>
    /\ lastStyle = <<>>
    /\ nCalls = 0
    /\ probe = NoProbe
    /\ found = NotWritten

\* size.format(): a fresh SizeFormatter over the same Size
Format ==
    /\ sizeFormatter' = Size_format(size)
    /\ out' = NotWritten
    /\ lastBase' = <<>>
    /\ lastStyle' = <<>>
    /\ nCalls' = 0
    /\ UNCHANGED <<size, probe, found>>

\* sizeFormatter.with_base(base): the value returned has written nothing
WithBase(base) ==
    /\ nCalls < MaxCalls
    /\ nCalls' = nCalls + 1
    /\ sizeFormatter' = with_base(sizeFormatter, base)
    /\ out' = NotWritten
    /\ lastBase' = <<base>>
    /\ UNCHANGED <<size, lastStyle, probe, found>>

\* sizeFormatter.with_style(style)
WithStyle(style) ==
    /\ nCalls < MaxCalls
    /\ nCalls' = nCalls + 1
    /\ sizeFormatter' = with_style(sizeFormatter, style)
    /\ out' = NotWritten
    /\ lastStyle' = <<style>>
    /\ UNCHANGED <<size, lastBase, probe, found>>

\* write!(sink, "{}", sizeFormatter)
Fmt ==
    /\ out' = SizeFormatter_fmt(sizeFormatter)
    /\ UNCHANGED <<size, sizeFormatter, lastBase, lastStyle, nCalls, probe, found>>

Next ==
    \/ Format
    \/ \E base \in Base : WithBase(base)
    \/ \E style \in Style : WithStyle(style)
    \/ Fmt

Spec == Init /\ [][Next]_vars

(***************************************************************************)
(* The rule lookup on its own, over u64.                                   *)
(***************************************************************************)
InitLookup ==
    /\ probe \in [base : Base, bytes : U64Inputs]
    /\ found = NotWritten
    /\ size = [neg |-> FALSE, mag |-> <<>>]
    /\ sizeFormatter = Size_format(size)
    /\ out = NotWritten
    /\ lastBase = <<>>
    /\ lastStyle = <<>>
    /\ nCalls = 0

Lookup ==
    /\ found' = select_rule(probe.base, probe.bytes)
    /\ UNCHANGED <<size, sizeFormatter, out, lastBase, lastStyle, nCalls, probe>>

NextLookup == Lookup

SpecLookup == InitLookup /\ [][NextLookup]_vars

(***************************************************************************)
(* Properties.                                                             *)
(***************************************************************************)
\* A rendering has been written and stands.
Rendered == out.status # "none"

\* The table the formatter reads, as configured.
Rules == rules_of(sizeFormatter.base)

\* The first entry of a table, scanned from the front, whose less_than
\* exceeds m (counted from 0; the length of the table when none does).
RECURSIVE FirstExceedingFrom(_, _, _)
FirstExceedingFrom(rules, m, i) ==
    IF i > Len(rules) \/ Lt(m, rules[i].less_than) THEN i - 1
    ELSE FirstExceedingFrom(rules, m, i + 1)

FirstExceeding(rules, m) == FirstExceedingFrom(rules, m, 1)

\* The step between the units of a base, and its k-th power.
Step(base) == IF base = "Base2" THEN 1024 ELSE 1000

RECURSIVE StepPow(_, _)
StepPow(base, k) ==
    IF k = 0 THEN <<1>> ELSE MulSmall(StepPow(base, k - 1), Step(base))

\* The units of a base above Byte, by power of the step.
UnitNames(base) ==
    IF base = "Base2"
    THEN <<"Kibibyte", "Mebibyte", "Gibibyte", "Tebibyte", "Pebibyte", "Exbibyte">>
    ELSE <<"Kilobyte", "Megabyte", "Gigabyte", "Terabyte", "Petabyte", "Exabyte">>

\* The tier of a unit: Byte is 0, kilo/kibi 1, up to exa/exbi 6.
Tier(unit) ==
    IF unit = "Byte" THEN 0
    ELSE CHOOSE k \in 1..6 : unit \in {UnitNames("Base2")[k], UnitNames("Base10")[k]}

\* m lies in [lo, hi)
Within(m, lo, hi) == Le(lo, m) /\ Lt(m, hi)

\* C1: the rule a rendering is written by is the first entry of the table
\* whose less_than strictly exceeds the magnitude; one below a threshold T the
\* entry with less_than T is taken and at T the entry after it, so that
\* exactly step^k bytes is written in the k-th unit.
C1_RuleSelection ==
    Rendered =>
        /\ out.status = "ok"
        /\ out.index = FirstExceeding(Rules, out.bytes)
        /\ \A i \in 1..(Len(Rules) - 1) :
            /\ out.bytes = Sub(Rules[i].less_than, <<1>>) => out.index = i - 1
            /\ out.bytes = Rules[i].less_than => out.index = i
        /\ \A k \in 1..6 :
            out.bytes = StepPow(sizeFormatter.base, k)
                => out.unit = UnitNames(sizeFormatter.base)[k]

\* Exactly 1000^2 bytes in Base10, written in megabytes by the fifth rule.
C1_Witness ==
    /\ Rendered
    /\ sizeFormatter.base = "Base10"
    /\ out.bytes = <<1, 0>>
    /\ out.index = 4
    /\ out.unit = "Megabyte"

\* C2: every rendering of a signed 64-bit count is written by exactly one
\* rule, at an index in 0..16, whichever result the binary search gave
\* (Ok(index) taken as index + 1, Err(index) as index): nothing panics.
C2_Total ==
    Rendered =>
        /\ out.status = "ok"
        /\ out.index \in 0..16
        /\ out.index < Len(Rules)
        /\ out.unit = Rules[out.index + 1].unit
        /\ \A search \in {binary_search_by_key(Rules, out.bytes, 0, Len(Rules))} :
            /\ search.ok => out.index = search.index + 1
            /\ ~search.ok => out.index = search.index

\* i64::MAX itself, written by the last rule.
C2_Witness ==
    /\ Rendered
    /\ ~size.neg
    /\ size.mag = i64_max_value
    /\ out.status = "ok"
    /\ out.index = 16

\* The rendering of the Size of magnitude m under the same configuration.
RenderingOf(m) ==
    SizeFormatter_fmt([sizeFormatter EXCEPT !.size = [neg |-> FALSE, mag |-> m]])

\* C3: a count of 0 or more is written without a sign, a negative one as "-"
\* and then the number and unit of its absolute value, and i64::MIN as "-"
\* and then the number and unit of i64::MAX.
C3_Sign ==
    Rendered =>
        /\ out.status = "ok"
        /\ out.sign = (IF size.neg THEN "-" ELSE "")
        /\ out.bytes = (IF size.neg /\ size.mag = i64_min_magnitude
                        THEN i64_max_value ELSE size.mag)
        /\ \A plain \in {RenderingOf(out.bytes)} :
            /\ plain.sign = ""
            /\ plain.number = out.number
            /\ plain.unit_text = out.unit_text

\* i64::MIN, written with the magnitude of i64::MAX.
C3_Witness ==
    /\ Rendered
    /\ size.neg
    /\ size.mag = i64_min_magnitude
    /\ out.sign = "-"
    /\ out.bytes = i64_max_value
    /\ out.unit_text = " EiB"

\* The style a rendering's unit is spelled in, Default resolved.
SpelledStyle ==
    IF sizeFormatter.style # "Default" THEN sizeFormatter.style
    ELSE IF out.unit = "Byte" THEN "FullLowercase" ELSE "Abbreviated"

\* C4: for the byte count handed to Unit::format, the styles Full and
\* FullLowercase spell the stem alone iff the count is 1 and the stem and "s"
\* otherwise, the abbreviated styles the abbreviation for every count; the
\* count is the raw one, so only a rendering in bytes can be singular.
C4_Plural ==
    Rendered =>
        /\ \A unit \in Unit :
            /\ Unit_format(unit, out.bytes, "Full").text
                = " " \o Unit_text(unit)[2] \o (IF out.bytes = <<1>> THEN "" ELSE "s")
            /\ Unit_format(unit, out.bytes, "FullLowercase").text
                = " " \o Unit_text(unit)[1] \o (IF out.bytes = <<1>> THEN "" ELSE "s")
            /\ Unit_format(unit, out.bytes, "Abbreviated").text
                = " " \o Unit_text(unit)[4]
            /\ Unit_format(unit, out.bytes, "AbbreviatedLowercase").text
                = " " \o Unit_text(unit)[3]
        /\ out.bytes = <<>> /\ SpelledStyle = "FullLowercase"
            => out.unit_text = " bytes"
        /\ out.bytes = <<2>> /\ SpelledStyle = "FullLowercase"
            => out.unit_text = " bytes"
        /\ out.bytes = <<1>> /\ SpelledStyle = "FullLowercase"
            => out.unit_text = " byte"
        /\ SpelledStyle \in {"Full", "FullLowercase"}
            => /\ out.unit_text \in {" " \o Unit_text(out.unit)[1],
                                     " " \o Unit_text(out.unit)[2]}
                    <=> out.bytes = <<1>>
               /\ out.bytes = <<1>> => out.unit = "Byte"

\* One byte in style Full: " Byte".
C4_Witness ==
    /\ Rendered
    /\ out.bytes = <<1>>
    /\ sizeFormatter.style = "Full"
    /\ out.unit_text = " Byte"

\* C5: a magnitude of one exabyte (Base10) or exbibyte (Base2) or more is
\* written by the last rule of the table, in the largest unit, and the
\* number has no digits after the point.
C5_LargestTierWhole ==
    Rendered /\ Le(StepPow(sizeFormatter.base, 6), out.bytes) =>
        /\ out.index = 16
        /\ out.unit = UnitNames(sizeFormatter.base)[6]
        /\ out.number.decimals = 0

\* What the schedule writes for a magnitude in the k-th unit: the unit and
\* the number, the magnitude over step^k with `places` digits after the point.
InUnit(k, places) ==
    /\ out.unit = UnitNames(sizeFormatter.base)[k]
    /\ out.number = [arg      |-> out.bytes,
                     divisor  |-> StepPow(sizeFormatter.base, k),
                     decimals |-> places]

\* C6: below the largest unit, with U = step^k for k in 1..5, a magnitude in
\* [U, 10U) is written in the k-th unit with 2 digits after the point, one in
\* [10U, 100U) with 1, one in [100U, step * U) with none, each divided by U;
\* a magnitude below the step is written whole, in bytes; and at step * U the
\* next unit is taken.
C6_Schedule ==
    Rendered =>
        /\ Lt(out.bytes, StepPow(sizeFormatter.base, 1))
            => /\ out.unit = "Byte"
               /\ out.number = [arg |-> out.bytes, divisor |-> <<1>>, decimals |-> 0]
        /\ \A k \in 1..5 :
            /\ Within(out.bytes, StepPow(sizeFormatter.base, k),
                      MulSmall(StepPow(sizeFormatter.base, k), 10))
                => InUnit(k, 2)
            /\ Within(out.bytes, MulSmall(StepPow(sizeFormatter.base, k), 10),
                      MulSmall(StepPow(sizeFormatter.base, k), 100))
                => InUnit(k, 1)
            /\ Within(out.bytes, MulSmall(StepPow(sizeFormatter.base, k), 100),
                      StepPow(sizeFormatter.base, k + 1))
                => InUnit(k, 0)
            /\ out.bytes = StepPow(sizeFormatter.base, k + 1)
                => out.unit = UnitNames(sizeFormatter.base)[k + 1]

\* 100 MiB less one byte in Base2: still mebibytes, with one digit.
C6_Witness ==
    /\ Rendered
    /\ sizeFormatter.base = "Base2"
    /\ out.bytes = <<104, 857599>>
    /\ out.unit = "Mebibyte"
    /\ out.number.decimals = 1

\* C7: under Style::Default the unit is spelled as under FullLowercase when
\* the unit is Byte and as under Abbreviated otherwise; format calls itself
\* once for Default, with a style other than Default, and not at all for the
\* other styles.
C7_DefaultStyle ==
    Rendered =>
        /\ sizeFormatter.style = "Default"
            => /\ out.calls = 2
               /\ out.unit = "Byte"
                    => out.unit_text
                        = Unit_format(out.unit, out.bytes, "FullLowercase").text
               /\ out.unit # "Byte"
                    => out.unit_text
                        = Unit_format(out.unit, out.bytes, "Abbreviated").text
        /\ sizeFormatter.style # "Default" => out.calls = 1
        /\ \A unit \in Unit :
            /\ default_style(unit) # "Default"
            /\ Unit_format(unit, out.bytes, "Default").calls = 2

\* A count in bytes under the default style: " bytes", by one inner call.
C7_Witness ==
    /\ Rendered
    /\ sizeFormatter.style = "Default"
    /\ out.unit = "Byte"
    /\ out.unit_text = " bytes"
    /\ out.calls = 2

\* The unit the configured base selects for a magnitude.
UnitOf(m) == select_rule(sizeFormatter.base, m).rule.unit

\* The tier of the unit each base selects for each magnitude.
SelectedTier ==
    [base \in Base |->
        [m \in Magnitudes |-> Tier(select_rule(base, m).rule.unit)]]

\* C8: within one base the tier of the selected unit never falls as the
\* magnitude grows, whatever the style; Base10 selects Byte and the decimal
\* units only, Base2 Byte and the binary units only.
C8_Monotone ==
    Rendered =>
        /\ \A m \in Magnitudes :
            /\ Le(m, out.bytes)
                => SelectedTier[sizeFormatter.base][m] <= Tier(out.unit)
            /\ Le(out.bytes, m)
                => Tier(out.unit) <= SelectedTier[sizeFormatter.base][m]
        /\ out.unit = UnitOf(out.bytes)
        /\ out.unit = "Byte"
            \/ \E k \in 1..6 : out.unit = UnitNames(sizeFormatter.base)[k]

\* One gigabyte in Base10, spelled in full.
C8_Witness ==
    /\ Rendered
    /\ sizeFormatter.base = "Base10"
    /\ sizeFormatter.style = "Full"
    /\ out.bytes = <<1000, 0>>
    /\ out.unit = "Gigabyte"

\* C9: after any chain of with_base and with_style calls on the value of
\* Size::format the base is the argument of the last with_base call (Base2
\* when there was none), the style that of the last with_style call (Default
\* when there was none) and the size the one format was called on; with_base
\* changes neither style nor size, with_style neither base nor size, and a
\* rendering changes nothing of the formatter.
C9_LastWriteWins ==
    /\ [](/\ sizeFormatter.base = (IF lastBase = <<>> THEN "Base2" ELSE lastBase[1])
          /\ sizeFormatter.style
                = (IF lastStyle = <<>> THEN "Default" ELSE lastStyle[1])
          /\ sizeFormatter.size = size)
    /\ [][/\ (\E base \in Base : WithBase(base))
                => /\ sizeFormatter'.style = sizeFormatter.style
                   /\ sizeFormatter'.size = sizeFormatter.size
          /\ (\E style \in Style : WithStyle(style))
                => /\ sizeFormatter'.base = sizeFormatter.base
                   /\ sizeFormatter'.size = sizeFormatter.size
          /\ out'.status # "none" => sizeFormatter' = sizeFormatter /\ size' = size
         ]_vars

\* with_base(Base10), with_base(Base2), then with_style(Full), and rendered.
C9_Witness ==
    /\ Rendered
    /\ nCalls = 3
    /\ lastBase = <<"Base2">>
    /\ lastStyle = <<"Full">>
    /\ sizeFormatter.base = "Base2"
    /\ sizeFormatter.style = "Full"

====
